---- MODULE Spec2Model ----
(***************************************************************************)
(* Model of SomaticIndelVcfWriter.cpp (strelka): the per-position indel    *)
(* buffer (cacheIndel / addIndelWindowData), the site filters and the      *)
(* per-sample column writer of writeSomaticIndelVcfGrid, and calculateSOR. *)
(***************************************************************************)
EXTENDS Integers, Sequences, FiniteSets, TLC

VARIABLES
    data,      \* _data : std::map<pos_t, std::vector<SomaticIndelVcfInfo>>
    out,       \* *_osptr : the records written so far
    status,    \* "ok" | "aborted" (assert failure ends the process)
    ndebug,    \* TRUE iff the build defines NDEBUG (assert compiled out)
    last,      \* the last call made on the writer: [op, pos]
    ncalls,    \* number of calls made on the writer
    pend,      \* history: candidates cached at p since p was last flushed
    hist,      \* history: every candidate ever cached at p, in order
    fin,       \* input of one site-filter evaluation
    fres,      \* its result (the filter set), once evaluated
    sorIn,     \* input of one calculateSOR evaluation
    sorOut,    \* its result, once evaluated
    fpc,       \* position inside the two write_vcf_isri_tiers calls
    os,        \* formatting state of the output stream
    os0,       \* formatting state of the stream before the record
    saved,     \* state captured by the StreamScoper, while one is alive
    flog       \* the fields written, each with the stream state in force

vars == <<data, out, status, ndebug, last, ncalls, pend, hist,
          fin, fres, sorIn, sorOut, fpc, os, os0, saved, flog>>

bufVars == <<data, out, status, ndebug, last, ncalls, pend, hist>>
filtVars == <<fin, fres>>
sorVars == <<sorIn, sorOut>>
fmtVars == <<fpc, os, os0, saved, flog>>

----------------------------------------------------------------------------
(* Bounds *)

MaxPos == 1          \* positions are 0..MaxPos
MaxCalls == 5        \* calls made on one writer
MaxAvg == 5          \* window averages are 0..MaxAvg, in units of 1/Scale
MaxDepth == 3        \* depths are 0..MaxDepth
MaxQ == 2            \* phred qualities are 0..MaxQ
MaxCount == 2        \* small strand counts are 0..MaxCount

Scale == 2           \* fixed-point unit of a window average: 1/Scale
ThrDen == 4          \* the window-fraction threshold is k/ThrDen

Positions == 0..MaxPos

\* an optional value: absent, or holding x
None == <<>>
Some(x) == <<x>>

----------------------------------------------------------------------------
(* Site filters of writeSomaticIndelVcfGrid *)

\* conversion of a non-negative floating average to int: truncation
ToInt(x) == x \div Scale

\* safeFrac(num, denom) as the exact rational <<numerator, denominator>>
safeFrac(num, denom) == IF denom > 0 THEN <<num, denom>> ELSE <<0, 1>>

\* a >= b for rationals with positive denominators
FracGE(a, b) == a[1] * b[2] >= b[1] * a[2]

\* the window fraction of one sample, from the int-converted averages
WinFrac(was) ==
    LET filt == ToInt(was.filt)
        used == ToInt(was.used)
    IN  safeFrac(filt, filt + used)

\* mutant of IsHighDepth: ">=" for ">"
IsHighDepthInclusive(dopt, c) ==
    dopt.is_max_depth /\ c.dp1 >= dopt.max_depth

IsHighDepth(dopt, c) ==
    dopt.is_max_depth /\ c.dp1 > dopt.max_depth

IsIndelBCNoise(opt, wasNormal, wasTumor) ==
    \/ FracGE(WinFrac(wasNormal), <<opt.maxFrac, ThrDen>>)
    \/ FracGE(WinFrac(wasTumor), <<opt.maxFrac, ThrDen>>)

\* mutant of IsQSIRef: "&&" for "||"
IsQSIRefBoth(opt, c) ==
    (c.ntype # "ref") /\ (c.qnt < opt.lowerBound)

IsQSIRef(opt, c) ==
    (c.ntype # "ref") \/ (c.qnt < opt.lowerBound)

\* strelka_shared_modifiers::set_filter accumulates into a set
SiteFilters(opt, dopt, c, wasNormal, wasTumor) ==
    (IF IsHighDepth(dopt, c) THEN {"HighDepth"} ELSE {})
    \cup (IF IsIndelBCNoise(opt, wasNormal, wasTumor) THEN {"IndelBCNoise"} ELSE {})
    \cup (IF IsQSIRef(opt, c) THEN {"QSI_ref"} ELSE {})

\* one output line: the fields that identify the candidate and its filters
writeSomaticIndelVcfGrid(opt, dopt, pos, c, wasNormal, wasTumor) ==
    [pos |-> pos + 1, id |-> c.id, filters |-> SiteFilters(opt, dopt, c, wasNormal, wasTumor),
     nt |-> c.ntype, qnt |-> c.qnt, dp1 |-> c.dp1, dp2 |-> c.dp2, tdp1 |-> c.tdp1]

----------------------------------------------------------------------------
(* The position buffer *)

\* the candidates and window averages the buffer is driven with
Cands == { [id |-> "A", ntype |-> "ref", qnt |-> 2, dp1 |-> 1, dp2 |-> 1, tdp1 |-> 1],
           [id |-> "B", ntype |-> "het", qnt |-> 0, dp1 |-> 3, dp2 |-> 2, tdp1 |-> 1] }
BufWas == { [used |-> 4, filt |-> 0, submap |-> 0],
            [used |-> 2, filt |-> 4, submap |-> 1] }
BufOpt == [maxFrac |-> 2, lowerBound |-> 1]
BufDopt == [is_max_depth |-> TRUE, max_depth |-> 2]

\* testPos(pos): _data.count(pos) != 0
testPos(d, pos) == pos \in DOMAIN d

\* _data[pos]: std::map::operator[] inserts an empty vector when absent
MapIndex(d, pos) ==
    IF pos \in DOMAIN d THEN d
    ELSE [q \in DOMAIN d \cup {pos} |-> IF q = pos THEN <<>> ELSE d[q]]

\* _data[pos].push_back(siInfo)
PushBack(d, pos, c) ==
    LET d1 == MapIndex(d, pos)
    IN  [d1 EXCEPT ![pos] = Append(@, c)]

\* mutants of MapErase: the vector is cleared but its key stays; the whole map is cleared
MapEraseKeepsKey(d, pos) == [d EXCEPT ![pos] = <<>>]
MapEraseAll(d, pos) == [q \in {} |-> <<>>]

\* _data.erase(pos)
MapErase(d, pos) == [q \in DOMAIN d \ {pos} |-> d[q]]

\* mutant of DuplicateCacheThrows: the "#if 0" block compiled in
DuplicateCacheThrowsEnabled(d, pos) == pos \in DOMAIN d

\* the duplicate-site check of cacheIndel is under "#if 0": it never throws
DuplicateCacheThrows(d, pos) == FALSE

\* mutant of FlushRecords: the vector is walked back to front
FlushRecordsReversed(d, pos, wasNormal, wasTumor) ==
    LET v == MapIndex(d, pos)[pos]
    IN  [i \in 1..Len(v) |->
            writeSomaticIndelVcfGrid(BufOpt, BufDopt, pos, v[Len(v) + 1 - i], wasNormal, wasTumor)]

\* the loop of addIndelWindowData: one record per element, in vector order
FlushRecords(d, pos, wasNormal, wasTumor) ==
    LET v == MapIndex(d, pos)[pos]
    IN  [i \in 1..Len(v) |->
            writeSomaticIndelVcfGrid(BufOpt, BufDopt, pos, v[i], wasNormal, wasTumor)]

cacheIndel(pos, c) ==
    /\ status = "ok"
    /\ ncalls < MaxCalls
    /\ IF DuplicateCacheThrows(data, pos)
       THEN /\ status' = "exception"
            /\ UNCHANGED <<data, pend, hist>>
       ELSE /\ data' = PushBack(data, pos, c)
            /\ pend' = [pend EXCEPT ![pos] = Append(@, c)]
            /\ hist' = [hist EXCEPT ![pos] = Append(@, c)]
            /\ UNCHANGED status
    /\ last' = [op |-> "cache", pos |-> pos]
    /\ ncalls' = ncalls + 1
    /\ UNCHANGED <<out, ndebug>>

\* assert(testPos(pos)) fails: the process aborts before anything is written
addIndelWindowDataAbort(pos) ==
    /\ status = "ok"
    /\ ncalls < MaxCalls
    /\ ~ndebug
    /\ ~testPos(data, pos)
    /\ status' = "aborted"
    /\ last' = [op |-> "flush", pos |-> pos]
    /\ ncalls' = ncalls + 1
    /\ UNCHANGED <<data, out, ndebug, pend, hist>>

addIndelWindowData(pos, wasNormal, wasTumor) ==
    /\ status = "ok"
    /\ ncalls < MaxCalls
    /\ ndebug \/ testPos(data, pos)
    /\ out' = out \o FlushRecords(data, pos, wasNormal, wasTumor)
    /\ data' = MapErase(MapIndex(data, pos), pos)
    /\ pend' = [pend EXCEPT ![pos] = <<>>]
    /\ last' = [op |-> "flush", pos |-> pos]
    /\ ncalls' = ncalls + 1
    /\ UNCHANGED <<status, ndebug, hist>>

BufInit ==
    /\ data = <<>>
    /\ out = <<>>
    /\ status = "ok"
    /\ ndebug \in BOOLEAN
    /\ last = [op |-> "none", pos |-> 0]
    /\ ncalls = 0
    /\ pend = [p \in Positions |-> <<>>]
    /\ hist = [p \in Positions |-> <<>>]

DefaultFmt == [flags |-> "general", prec |-> 6]

FiltIdle == fin = None /\ fres = None
SorIdle == sorIn = None /\ sorOut = None
FmtIdle == fpc = [col |-> "none", at |-> "idle", k |-> 0] /\ os = DefaultFmt /\ os0 = DefaultFmt /\ saved = None /\ flog = <<>>

Init == BufInit /\ FiltIdle /\ SorIdle /\ FmtIdle

Next ==
    \/ \E p \in Positions, c \in Cands :
          cacheIndel(p, c) /\ UNCHANGED <<filtVars, sorVars, fmtVars>>
    \/ \E p \in Positions :
          addIndelWindowDataAbort(p) /\ UNCHANGED <<filtVars, sorVars, fmtVars>>
    \/ \E p \in Positions, wn \in BufWas, wt \in BufWas :
          addIndelWindowData(p, wn, wt) /\ UNCHANGED <<filtVars, sorVars, fmtVars>>

Spec == Init /\ [][Next]_vars

----------------------------------------------------------------------------
(* One evaluation of the site filters on drawn inputs *)

BufIdle ==
    /\ data = <<>> /\ out = <<>> /\ status = "ok" /\ ndebug = FALSE
    /\ last = [op |-> "none", pos |-> 0] /\ ncalls = 0
    /\ pend = [p \in Positions |-> <<>>]
    /\ hist = [p \in Positions |-> <<>>]

NTypes == {"ref", "hom", "het", "conflict"}

SiteOpts == [maxFrac : 0..ThrDen, lowerBound : 0..MaxQ]
SiteDopts == [is_max_depth : BOOLEAN, max_depth : 0..MaxDepth]
SiteCands == [id : {"A"}, ntype : NTypes, qnt : 0..MaxQ,
              dp1 : 0..MaxDepth, dp2 : {0, MaxDepth}, tdp1 : {0, MaxDepth}]
AllWas == [used : 0..MaxAvg, filt : 0..MaxAvg, submap : {0}]

EvalFilters ==
    /\ fin # None
    /\ fres = None
    /\ fres' = Some(SiteFilters(fin[1].opt, fin[1].dopt, fin[1].c,
                                fin[1].wasNormal, fin[1].wasTumor))
    /\ UNCHANGED <<fin, bufVars, sorVars, fmtVars>>

NextFilter == EvalFilters

\* depth and quality filters: every candidate and threshold, a few windows
InitFilter ==
    /\ BufIdle /\ SorIdle /\ FmtIdle
    /\ \E x \in [opt : SiteOpts, dopt : SiteDopts, c : SiteCands,
                   wasNormal : BufWas, wasTumor : BufWas] : fin = Some(x)
    /\ fres = None

SpecFilter == InitFilter /\ [][NextFilter]_vars

\* window-noise filter: every pair of window averages and threshold
InitNoise ==
    /\ BufIdle /\ SorIdle /\ FmtIdle
    /\ \E x \in [opt : [maxFrac : 0..ThrDen, lowerBound : {BufOpt.lowerBound}],
                   dopt : {BufDopt}, c : Cands,
                   wasNormal : AllWas, wasTumor : AllWas] : fin = Some(x)
    /\ fres = None

SpecNoise == InitNoise /\ [][NextFilter]_vars

----------------------------------------------------------------------------
(* calculateSOR on drawn strand counts *)

\* unsigned values are held as little-endian base-256 digit strings, so that
\* 32-bit and wider products are exact
Base == 256
WordDigits == 4      \* unsigned int: 32 bits

ToDigits(n) == [i \in 1..WordDigits |-> (n \div Base^(i - 1)) % Base]

IsZero(d) == \A i \in 1..Len(d) : d[i] = 0

RECURSIVE ConvSum(_, _, _, _)
ConvSum(a, b, k, i) ==
    IF i > Len(a) THEN 0
    ELSE (IF k + 1 - i >= 1 /\ k + 1 - i <= Len(b) THEN a[i] * b[k + 1 - i] ELSE 0)
         + ConvSum(a, b, k, i + 1)

RECURSIVE Propagate(_, _, _)
Propagate(c, i, carry) ==
    IF i > Len(c) THEN <<>>
    ELSE LET t == c[i] + carry
         IN  <<t % Base>> \o Propagate(c, i + 1, t \div Base)

\* the exact product of two digit strings, Len(a) + Len(b) digits
MulDigits(a, b) ==
    Propagate([k \in 1..(Len(a) + Len(b)) |-> ConvSum(a, b, k, 1)], 1, 0)

\* unsigned int multiplication: the product modulo 2^32
UMul32(x, y) == SubSeq(MulDigits(ToDigits(x), ToDigits(y)), 1, WordDigits)

\* the result is +infinity, or log10 of num/denom
calculateSOR(isri) ==
    LET num == UMul32(isri.ref_fwd, isri.indel_rev)
        denom == UMul32(isri.ref_rev, isri.indel_fwd)
    IN  IF IsZero(denom)
        THEN [kind |-> "inf", num |-> <<>>, denom |-> <<>>]
        ELSE [kind |-> "log10", num |-> num, denom |-> denom]

BigCounts == {65536, 65537}
StrandCounts == (0..MaxCount) \cup BigCounts

EvalSOR ==
    /\ sorIn # None
    /\ sorOut = None
    /\ sorOut' = Some(calculateSOR(sorIn[1]))
    /\ UNCHANGED <<sorIn, bufVars, filtVars, fmtVars>>

NextSOR == EvalSOR

InitSOR ==
    /\ BufIdle /\ FiltIdle /\ FmtIdle
    /\ \E x \in [ref_fwd : StrandCounts, ref_rev : StrandCounts,
                 indel_fwd : StrandCounts, indel_rev : StrandCounts] :
          sorIn = Some(x)
    /\ sorOut = None

SpecSOR == InitSOR /\ [][NextSOR]_vars

----------------------------------------------------------------------------
(* The two sample columns of one record, field by field *)

Fixed2 == [flags |-> "fixed", prec |-> 2]

\* mutant of SetFixedPrecision2: std::fixed left out
SetPrecision2Only(fmt) == [fmt EXCEPT !.prec = 2]

\* os << std::fixed << std::setprecision(2)
SetFixedPrecision2(fmt) == [flags |-> "fixed", prec |-> 2]

\* StreamScoper: captures the stream state when built, puts it back when destroyed
ScoperSave(fmt) == Some(fmt)
ScoperRestore(sv) == sv[1]

IntFields == <<"DP", "DP2", "TAR", "TIR", "TOR">>
FloatFields == <<"DP50", "FDP50", "SUBDP50", "AF", "SOR", "FS", "RR", "MQ", "MQ0">>
WindowFields == {"DP50", "FDP50", "SUBDP50"}

Entry(col, field, kind, fmt) == [col |-> col, field |-> field, kind |-> kind, fmt |-> fmt]

\* depth, depth, and the three comma-joined count pairs
WriteCounts ==
    /\ fpc.at = "counts"
    /\ flog' = flog \o [i \in 1..Len(IntFields) |-> Entry(fpc.col, IntFields[i], "int", os)]
    /\ fpc' = [fpc EXCEPT !.at = "scoper"]
    /\ UNCHANGED <<os, os0, saved>>

\* const StreamScoper ss(os)
EnterScope ==
    /\ fpc.at = "scoper"
    /\ saved' = ScoperSave(os)
    /\ fpc' = [fpc EXCEPT !.at = "manip"]
    /\ UNCHANGED <<os, os0, flog>>

SetFixed ==
    /\ fpc.at = "manip"
    /\ os' = SetFixedPrecision2(os)
    /\ fpc' = [fpc EXCEPT !.at = "float", !.k = 1]
    /\ UNCHANGED <<os0, saved, flog>>

\* the k-th floating field of the chained output statement
WriteFloat ==
    /\ fpc.at = "float"
    /\ flog' = Append(flog, Entry(fpc.col, FloatFields[fpc.k], "float", os))
    /\ fpc' = IF fpc.k < Len(FloatFields)
              THEN [fpc EXCEPT !.k = fpc.k + 1]
              ELSE [fpc EXCEPT !.at = "exit", !.k = 0]
    /\ UNCHANGED <<os, os0, saved>>

\* end of write_vcf_isri_tiers: ss is destroyed; the tumor column follows the normal one
LeaveScope ==
    /\ fpc.at = "exit"
    /\ os' = ScoperRestore(saved)
    /\ saved' = None
    /\ fpc' = IF fpc.col = "normal"
              THEN [col |-> "tumor", at |-> "counts", k |-> 0]
              ELSE [col |-> "tumor", at |-> "done", k |-> 0]
    /\ UNCHANGED <<os0, flog>>

NextFmt ==
    \/ WriteCounts /\ UNCHANGED <<bufVars, filtVars, sorVars>>
    \/ EnterScope /\ UNCHANGED <<bufVars, filtVars, sorVars>>
    \/ SetFixed /\ UNCHANGED <<bufVars, filtVars, sorVars>>
    \/ WriteFloat /\ UNCHANGED <<bufVars, filtVars, sorVars>>
    \/ LeaveScope /\ UNCHANGED <<bufVars, filtVars, sorVars>>

\* the states a caller may have left the stream in
StreamFmts == [flags : {"general", "fixed", "scientific"}, prec : {2, 3, 6}]

InitFmt ==
    /\ BufIdle /\ FiltIdle /\ SorIdle
    /\ fpc = [col |-> "normal", at |-> "counts", k |-> 0]
    /\ os \in StreamFmts
    /\ os0 = os
    /\ saved = None
    /\ flog = <<>>

SpecFmt == InitFmt /\ [][NextFmt]_vars

----------------------------------------------------------------------------
(* Properties of the position buffer *)

\* a step is a call on the writer (every call increments ncalls)
IsCall == ncalls' # ncalls

\* the records a step appended to the output
Emitted == SubSeq(out', Len(out) + 1, Len(out'))

\* the candidate a record was rendered from
CandOf(r) == [id |-> r.id, ntype |-> r.nt, qnt |-> r.qnt,
              dp1 |-> r.dp1, dp2 |-> r.dp2, tdp1 |-> r.tdp1]

\* the candidates of the records written for position q, in output order
EmittedFor(o, q) ==
    LET rs == SelectSeq(o, LAMBDA r : r.pos = q + 1)
    IN  [i \in 1..Len(rs) |-> CandOf(rs[i])]

\* the vector buffered at q, empty when q has no entry
PendingAt(d, q) == IF q \in DOMAIN d THEN d[q] ELSE <<>>

\* C1: flushing a position at which c1..cN (N >= 1) were cached since its
\* last flush appends exactly the N renderings of c1..cN, in that order, and
\* leaves the position without an entry in the buffer.
C1_FlushEmitsAllInOrder ==
    [][ (IsCall /\ last'.op = "flush" /\ pend[last'.pos] # <<>>) =>
          LET p == last'.pos
              cs == pend[p]
          IN  /\ status' = "ok"
              /\ \E wn \in BufWas, wt \in BufWas :
                    out' = out \o [i \in 1..Len(cs) |->
                        writeSomaticIndelVcfGrid(BufOpt, BufDopt, p, cs[i], wn, wt)]
              /\ ~testPos(data', p) ]_vars

\* two candidates were cached at one position and then flushed together
C1_Witness ==
    /\ last.op = "flush" /\ status = "ok" /\ ncalls = 3
    /\ Len(out) = 2 /\ out[1].id # out[2].id
    /\ ~testPos(data, last.pos)

\* C2: flushing a position that has no pending candidates always ends in an
\* abort, whatever the build.
C2_FlushAbsentFailsFast ==
    [][ (IsCall /\ last'.op = "flush" /\ ~testPos(data, last'.pos)) =>
          status' = "aborted" ]_vars

\* C3: a position has an entry in the buffer iff a candidate was cached
\* there and not yet flushed, and no entry is an empty list.
C3_KeyIffPending ==
    /\ DOMAIN data \subseteq Positions
    /\ \A p \in Positions :
          /\ testPos(data, p) <=> pend[p] # <<>>
          /\ testPos(data, p) => data[p] # <<>>

\* a position was flushed after being cached while another is still pending
C3_Witness ==
    /\ last.op = "flush" /\ status = "ok"
    /\ hist[last.pos] # <<>> /\ ~testPos(data, last.pos)
    /\ \E q \in Positions : testPos(data, q)

\* C4: cacheIndel never raises; it appends the candidate after those
\* pending at the position and keeps them as they were; a position holding
\* two candidates flushes to two records.
C4_CacheAppendsNoError ==
    [][ /\ ( (IsCall /\ last'.op = "cache") =>
                ( /\ status' = "ok"
                  /\ testPos(data', last'.pos)
                  /\ \E c \in Cands :
                        data'[last'.pos] = PendingAt(data, last'.pos) \o <<c>> ) )
        /\ ( (IsCall /\ last'.op = "flush" /\ Len(PendingAt(data, last'.pos)) = 2) =>
                ( /\ status' = "ok"
                  /\ Len(Emitted) = 2 ) ) ]_vars

\* a candidate was cached at a position that already had one pending
C4_Witness ==
    /\ last.op = "cache" /\ status = "ok"
    /\ testPos(data, last.pos) /\ Len(data[last.pos]) >= 2

\* C10: a call on position p leaves the pending list of every other
\* position as it was and emits only records of position p; the records
\* emitted for a position, followed by what is still pending there, are the
\* candidates cached at that position, in cache order.
C10_PositionsIndependent ==
    [][ IsCall =>
          LET p == last'.pos
          IN  /\ \A q \in Positions \ {p} :
                    /\ testPos(data', q) <=> testPos(data, q)
                    /\ PendingAt(data', q) = PendingAt(data, q)
              /\ \A i \in 1..Len(Emitted) : Emitted[i].pos = p + 1
              /\ \A q \in Positions :
                    EmittedFor(out', q) \o PendingAt(data', q) = hist'[q] ]_vars

\* a position was flushed while another position had candidates pending
C10_Witness ==
    /\ last.op = "flush" /\ status = "ok"
    /\ Len(out) >= 1 /\ out[Len(out)].pos = last.pos + 1
    /\ \E q \in Positions \ {last.pos} : testPos(data, q) /\ EmittedFor(out, q) # <<>>

----------------------------------------------------------------------------
(* Properties of the site filters *)

\* filteredAvg / (filteredAvg + usedAvg) from the real-valued averages
RealWinFrac(was) == safeFrac(was.filt, was.filt + was.used)

\* C6: IndelBCNoise is set iff the filtered fraction of the real-valued
\* window averages of the normal or of the tumor sample is >= the threshold.
C6_NoiseFromRealAverages ==
    fres # None =>
       ( "IndelBCNoise" \in fres[1] <=>
            \/ FracGE(RealWinFrac(fin[1].wasNormal), <<fin[1].opt.maxFrac, ThrDen>>)
            \/ FracGE(RealWinFrac(fin[1].wasTumor), <<fin[1].opt.maxFrac, ThrDen>>) )

\* C7: a candidate whose NT is not "reference" always carries QSI_ref; one
\* whose NT is "reference" carries it iff its NT-relative quality is
\* strictly below the lower bound.
C7_QSIRefFlag ==
    fres # None =>
       /\ fin[1].c.ntype # "ref" => "QSI_ref" \in fres[1]
       /\ fin[1].c.ntype = "ref" =>
             ("QSI_ref" \in fres[1] <=> fin[1].c.qnt < fin[1].opt.lowerBound)

\* a non-reference candidate of quality above the bound, no other flag set
C7_Witness ==
    /\ fres = Some({"QSI_ref"})
    /\ fin[1].c.ntype # "ref" /\ fin[1].c.qnt > fin[1].opt.lowerBound

\* C8: HighDepth is set iff a max-depth threshold is configured and the
\* tier-1 normal depth is strictly greater than it.
C8_HighDepthFlag ==
    fres # None =>
       ( "HighDepth" \in fres[1] <=>
            fin[1].dopt.is_max_depth /\ fin[1].c.dp1 > fin[1].dopt.max_depth )

\* the depth equals the configured threshold while the tier-2 and tumor
\* depths exceed it, and the flag is not set
C8_Witness ==
    /\ fres # None /\ "HighDepth" \notin fres[1]
    /\ fin[1].dopt.is_max_depth /\ fin[1].c.dp1 = fin[1].dopt.max_depth
    /\ fin[1].c.dp2 > fin[1].dopt.max_depth /\ fin[1].c.tdp1 > fin[1].dopt.max_depth

----------------------------------------------------------------------------
(* Properties of calculateSOR *)

\* the true products, never wrapped
TrueNum == MulDigits(ToDigits(sorIn[1].ref_fwd), ToDigits(sorIn[1].indel_rev))
TrueDenom == MulDigits(ToDigits(sorIn[1].ref_rev), ToDigits(sorIn[1].indel_fwd))

\* C5: calculateSOR returns +infinity exactly when the true product
\* refRev*indelFwd is 0, and otherwise log10 of the true quotient
\* (refFwd*indelRev)/(refRev*indelFwd).
C5_SORFromTrueProducts ==
    sorOut # None =>
       /\ sorOut[1].kind = "inf" <=> IsZero(TrueDenom)
       /\ sorOut[1].kind = "log10" =>
             MulDigits(sorOut[1].num, TrueDenom) = MulDigits(TrueNum, sorOut[1].denom)

----------------------------------------------------------------------------
(* Properties of the sample columns *)

FloatEntries == {i \in 1..Len(flog) : flog[i].kind = "float"}

\* C9 as stated: only the window-derived fields are written in fixed
\* 2-decimal mode, every other floating field in the mode the stream had
\* before, and the mode after the record equals the mode before.
C9_OnlyWindowFieldsFixed ==
    /\ \A i \in FloatEntries :
          IF flog[i].field \in WindowFields
          THEN flog[i].fmt = Fixed2
          ELSE flog[i].fmt = os0
    /\ fpc.at = "done" => os = os0

\* C9 as amended: every floating field of a sample column, window-derived
\* or not, is written in fixed 2-decimal mode; the integer fields are
\* written in the mode the stream had before; the mode after a column and
\* after the record equals the mode before.
C9_AllFloatFieldsFixed ==
    /\ \A i \in 1..Len(flog) :
          IF flog[i].kind = "float"
          THEN flog[i].fmt = Fixed2
          ELSE flog[i].fmt = os0
    /\ fpc.at \in {"done", "counts"} => os = os0 /\ saved = None

\* a whole record was written to a stream that was in its default mode
C9_Witness ==
    /\ fpc.at = "done" /\ os0 = DefaultFmt
    /\ Len(flog) = 2 * (Len(IntFields) + Len(FloatFields))
    /\ \E i \in FloatEntries : flog[i].field = "AF" /\ flog[i].col = "tumor"

====
